---- MODULE Spec2Model ----
(***************************************************************************)
(* Sudoku Master Pro (src/main.py): the puzzle engine (SudokuGame) and the *)
(* handlers of the main window (SudokuMaster) that drive it.               *)
(*                                                                         *)
(* A board is a function over Coords (pairs <<row, col>>, 0-based).  The   *)
(* solution holds integers; a cell of the game board holds either the      *)
(* empty string of the source, written EMPTY == <<>>, or an integer n,     *)
(* written <<n>>, so that "" and a number stay distinct values.            *)
(***************************************************************************)
EXTENDS Integers, Sequences, FiniteSets, TLC

VARIABLES
    solution_board,    \* SudokuGame.solution_board: NoBoard (None) or Coords -> 1..9
    game_board,        \* SudokuGame.game_board: Coords -> EMPTY or <<n>>
    immutable_cells,   \* SudokuGame.immutable_cells: set of coordinates
    mistakes,          \* SudokuGame.mistakes
    hints_used,        \* SudokuGame.hints_used
    empty_cells,       \* SudokuGame.empty_cells
    selected_cell,     \* SudokuMaster.selected_cell: NoCell (None) or <<row, col>>
    seconds,           \* SudokuMaster.seconds
    is_timer_running,  \* SudokuMaster.is_timer_running
    is_error,          \* coordinates whose SudokuCell.is_error is True
    is_hint,           \* coordinates whose SudokuCell.is_hint is True
    is_selected,       \* coordinates whose SudokuCell.is_selected is True
    slider,            \* sliderEmptyCells.value()
    difficulty,        \* the checked difficulty radio button
    status,            \* the message the last handler put on the status bar, "" if none
    dialog,            \* the message boxes the last handler showed, in order
    file,              \* the .sdj file on disk: NoFile or a payload
    scores,            \* the rows of the scores table, in insertion order
    shuffles,          \* the random draws of the last generate_sudoku call
    raised,            \* the exception the last handler ended with, "" if none
    clicked,           \* the cell of the last click, until a hint, new game or load
                       \* moves the selection (NoCell then)
    arg,               \* what the last handler was called with: the number for
                       \* number_clicked (<<>> for ""), the keys the payload
                       \* lacks for load_game, <<>> otherwise
    returned,          \* what the last call returned: <<is_correct, list>> of
                       \* check_solution, <<>> otherwise
    op                 \* the handler that ran last

vars == <<solution_board, game_board, immutable_cells, mistakes, hints_used,
          empty_cells, selected_cell, seconds, is_timer_running, is_error,
          is_hint, is_selected, slider, difficulty, status, dialog, file,
          scores, shuffles, raised, clicked, arg, returned, op>>

-----------------------------------------------------------------------------
(* Program constants *)

BASE == 3
SIDE == 9
max_mistakes == 5
SLIDER_MIN == 20
SLIDER_MAX == 60
SLIDER_DEFAULT == 40

Coords == (0 .. 8) \X (0 .. 8)

NoBoard == <<>>
NoCell == <<>>
NoFile == <<>>
EMPTY == <<>>

Min(a, b) == IF a < b THEN a ELSE b
Max(a, b) == IF a > b THEN a ELSE b

\* The position of a coordinate in row-major order (for i in range(9): for j in range(9)).
RowMajor(rc) == 9 * rc[1] + rc[2]

CoordAt(k) == <<k \div 9, k % 9>>

-----------------------------------------------------------------------------
(* SudokuGame.generate_sudoku *)

\* The outcomes of random.sample(s, len(s)) for s = range(3): its permutations.
Perms3 == {p \in [1 .. 3 -> 0 .. 2] : \A i, j \in 1 .. 3 : p[i] = p[j] => i = j}

\* pattern without the band term r // BASE.
patternDropBand(r, c) == (BASE * (r % BASE) + c) % SIDE

pattern(r, c) == (BASE * (r % BASE) + r \div BASE + c) % SIDE

\* [g * BASE + r for g in shuffle(r_base) for r in shuffle(r_base)], element i
\* (0-based): the inner shuffle is drawn again for every g, so there is one
\* inner shuffle per band.
BandOrder(outer, inner, i) ==
    outer[i \div 3 + 1] * BASE + inner[i \div 3 + 1][(i % 3) + 1]

\* sh: the draws of one call, [ro, ri, co, ci, nums].
\* np.array([[nums[pattern(r, c)] for c in cols] for r in rows])
generate_sudoku(sh) ==
    [rc \in Coords |->
        sh.nums[pattern(BandOrder(sh.ro, sh.ri, rc[1]),
                        BandOrder(sh.co, sh.ci, rc[2])) + 1]]

\* Bounded draws of the random source for the games that are played: ShuffleA
\* permutes bands, rows, stacks, columns and digits; ShuffleB is the same draw
\* with the digits 1 and 2 exchanged.
ShuffleA ==
    [ro |-> <<2, 0, 1>>, ri |-> <<(<<1, 0, 2>>), (<<0, 2, 1>>), (<<2, 1, 0>>)>>,
     co |-> <<1, 2, 0>>, ci |-> <<(<<2, 0, 1>>), (<<1, 2, 0>>), (<<0, 1, 2>>)>>,
     nums |-> <<4, 9, 2, 7, 1, 8, 3, 6, 5>>]

ShuffleB == [ShuffleA EXCEPT !.nums = <<4, 9, 1, 7, 2, 8, 3, 6, 5>>]

GameShuffles == {ShuffleA, ShuffleB}

\* generate_sudoku on each of these draws, computed once.
GameBoards == [sh \in GameShuffles |-> generate_sudoku(sh)]

-----------------------------------------------------------------------------
(* SudokuGame.create_game_board *)

\* all_cells = [(i, j) for i in range(9) for j in range(9)]
all_cells == [k \in 1 .. 81 |-> CoordAt(k - 1)]

\* Bounded outcomes of random.sample(all_cells, n), one set of n distinct cells
\* per draw of the board.  SpreadMask: every 7th cell in row-major order from
\* (0, 0) (7 and 81 are coprime).  StripedMask: the first n cells of all_cells
\* reordered so that the cells where the boards of ShuffleA and ShuffleB agree
\* come first.
SpreadMask(n) == {CoordAt((7 * i) % 81) : i \in 0 .. n - 1}

StripedOrder ==
    SelectSeq(all_cells, LAMBDA rc : GameBoards[ShuffleA][rc] = GameBoards[ShuffleB][rc])
    \o SelectSeq(all_cells, LAMBDA rc : GameBoards[ShuffleA][rc] # GameBoards[ShuffleB][rc])

StripedMask(n) == {StripedOrder[i] : i \in 1 .. n}

\* The sample drawn after the board of sh was generated.
MaskChoices(sh, n) == IF sh = ShuffleA THEN {StripedMask(n)} ELSE {SpreadMask(n)}

\* A variant that copies the solution and clears nothing.
masked_board_keep(sol, cells_to_empty) == [rc \in Coords |-> <<sol[rc]>>]

\* self.game_board = self.solution_board.copy().astype(object), then "" in
\* every sampled cell.
masked_board(sol, cells_to_empty) ==
    [rc \in Coords |-> IF rc \in cells_to_empty THEN EMPTY ELSE <<sol[rc]>>]

\* create_game_board(empty_cells): a solved grid is generated, min(empty_cells,
\* 81) of its cells are sampled and emptied, the others become immutable.
create_game_board(n) ==
    \E sh \in GameShuffles :
      \E sol \in {GameBoards[sh]} :
        \E cells_to_empty \in MaskChoices(sh, Min(n, 81)) :
            /\ shuffles' = sh
            /\ solution_board' = sol
            /\ game_board' = masked_board(sol, cells_to_empty)
            /\ immutable_cells' = Coords \ cells_to_empty
            /\ empty_cells' = n
            /\ mistakes' = 0
            /\ hints_used' = 0

-----------------------------------------------------------------------------
(* SudokuMaster.new_game *)

Difficulties == {"Easy", "Medium", "Hard", "Expert"}

\* The request before clamping: the slider's value moved by the difficulty.
Requested(value, d) ==
    CASE d = "Easy"   -> value - 5
      [] d = "Hard"   -> value + 5
      [] d = "Expert" -> value + 10
      [] OTHER        -> value

\* A variant that passes the request on as it is.
NewGameEmptyCellsNoClamp(value, d) == Requested(value, d)

NewGameEmptyCells(value, d) ==
    IF d = "Medium" THEN value
    ELSE Min(SLIDER_MAX, Max(SLIDER_MIN, Requested(value, d)))

\* A variant that leaves the timer as it is.
new_game_keeps_timer ==
    /\ create_game_board(NewGameEmptyCells(slider, difficulty))
    \* update_board: every cell's flags are cleared
    /\ is_error' = {}
    /\ is_hint' = {}
    /\ is_selected' = {}
    /\ selected_cell' = NoCell
    /\ UNCHANGED <<seconds, is_timer_running>>
    /\ status' = "New game started"
    /\ dialog' = <<>>
    /\ raised' = ""
    /\ op' = "new_game"
    /\ clicked' = NoCell
    /\ arg' = <<>>
    /\ returned' = <<>>
    /\ UNCHANGED <<slider, difficulty, file, scores>>

new_game ==
    /\ create_game_board(NewGameEmptyCells(slider, difficulty))
    \* update_board: every cell's flags are cleared
    /\ is_error' = {}
    /\ is_hint' = {}
    /\ is_selected' = {}
    /\ selected_cell' = NoCell
    /\ seconds' = 0
    /\ is_timer_running' = FALSE
    /\ status' = "New game started"
    /\ dialog' = <<>>
    /\ raised' = ""
    /\ op' = "new_game"
    /\ clicked' = NoCell
    /\ arg' = <<>>
    /\ returned' = <<>>
    /\ UNCHANGED <<slider, difficulty, file, scores>>

\* The slider widget (QSlider, minimum 20, maximum 60): a key press moves it by
\* a single step (1) or a page step (10) and the widget keeps the value within
\* its range; the handler on_slider_changed only rewrites a label.
SliderSteps == {-10, -1, 1, 10}

on_slider_changed ==
    \E step \in SliderSteps :
      LET value == Min(SLIDER_MAX, Max(SLIDER_MIN, slider + step))
      IN  /\ value # slider
          /\ slider' = value
          /\ op' = "on_slider_changed"
          /\ UNCHANGED clicked
          /\ arg' = <<>>
          /\ returned' = <<>>
          /\ status' = ""
          /\ dialog' = <<>>
          /\ UNCHANGED <<solution_board, game_board, immutable_cells, mistakes,
                         hints_used, empty_cells, selected_cell, seconds,
                         is_timer_running, is_error, is_hint, is_selected,
                         difficulty, file, scores, shuffles, raised>>

\* The difficulty radio buttons (exclusive); no handler is connected.
select_difficulty ==
    \E d \in Difficulties :
        /\ d # difficulty
        /\ difficulty' = d
        /\ op' = "select_difficulty"
        /\ UNCHANGED clicked
        /\ arg' = <<>>
        /\ returned' = <<>>
        /\ status' = ""
        /\ dialog' = <<>>
        /\ UNCHANGED <<solution_board, game_board, immutable_cells, mistakes,
                       hints_used, empty_cells, selected_cell, seconds,
                       is_timer_running, is_error, is_hint, is_selected,
                       slider, file, scores, shuffles, raised>>

-----------------------------------------------------------------------------
(* Reading the boards *)

\* str(n) for the integers a board holds.
DecStr(n) == IF n \in 1 .. 9
             THEN <<"1", "2", "3", "4", "5", "6", "7", "8", "9">>[n]
             ELSE IF n = 0 THEN "0" ELSE "other"

\* str(self.game.game_board[i][j]): "" for the empty string, else the digits.
StrCell(v) == IF v = EMPTY THEN "" ELSE DecStr(v[1])

\* SudokuGame.get_filled_count
get_filled_count(board) == Cardinality({rc \in Coords : board[rc] # EMPTY})

\* SudokuMaster._is_fully_solved
IsFullySolved(sol, board) ==
    /\ sol # NoBoard
    /\ \A rc \in Coords : StrCell(board[rc]) = DecStr(sol[rc])

_is_fully_solved == IsFullySolved(solution_board, game_board)

\* A variant that accepts any digit on a cell that is not immutable.
is_valid_move_lenient(rc, num) ==
    solution_board # NoBoard /\ rc \notin immutable_cells

\* A variant that, with no solution to compare with, accepts any digit on a
\* cell that is not immutable.
is_valid_move_unchecked(rc, num) ==
    IF solution_board = NoBoard THEN rc \notin immutable_cells
    ELSE IF rc \in immutable_cells THEN FALSE
    ELSE solution_board[rc] = num

\* SudokuGame.is_valid_move (num is an integer here: "" never reaches it)
is_valid_move(rc, num) ==
    IF solution_board = NoBoard THEN FALSE
    ELSE IF rc \in immutable_cells THEN FALSE
    ELSE solution_board[rc] = num

\* The cells of the board that hold "", in row-major order.
EmptyCells(board) == SelectSeq(all_cells, LAMBDA rc : board[rc] = EMPTY)

\* SudokuMaster.check_solution's list: the non-immutable cells whose text
\* differs from the solution's, in row-major order.
incorrect_cells ==
    SelectSeq(all_cells,
              LAMBDA rc : /\ rc \notin immutable_cells
                          /\ StrCell(game_board[rc]) # DecStr(solution_board[rc]))

-----------------------------------------------------------------------------
(* SudokuMaster.cell_clicked *)

\* Bounded input: the cells the player clicks.  (0, 0) and (0, 7) are emptied
\* and (0, 4) is given in every game the model generates.
ClickCells == {<<0, 0>>, <<0, 7>>, <<0, 4>>}

\* A variant that selects the clicked cell whether or not it is immutable.
cell_clicked_any(rc) ==
    /\ selected_cell' = rc
    /\ is_selected' = {rc}
    /\ status' = IF rc \notin immutable_cells
                 THEN "Selected cell"
                 ELSE "This cell is fixed and cannot be changed."
    /\ dialog' = <<>>
    /\ raised' = ""
    /\ op' = "cell_clicked"
    /\ clicked' = rc
    /\ arg' = <<>>
    /\ returned' = <<>>
    /\ UNCHANGED <<solution_board, game_board, immutable_cells, mistakes,
                   hints_used, empty_cells, seconds, is_timer_running,
                   is_error, is_hint, slider, difficulty, file, scores,
                   shuffles>>

cell_clicked(rc) ==
    /\ IF rc \notin immutable_cells
       THEN /\ selected_cell' = rc
            /\ is_selected' = {rc}
            /\ status' = "Selected cell"
       ELSE /\ selected_cell' = NoCell
            /\ is_selected' = is_selected \ {selected_cell}
            /\ status' = "This cell is fixed and cannot be changed."
    /\ dialog' = <<>>
    /\ raised' = ""
    /\ op' = "cell_clicked"
    /\ clicked' = rc
    /\ arg' = <<>>
    /\ returned' = <<>>
    /\ UNCHANGED <<solution_board, game_board, immutable_cells, mistakes,
                   hints_used, empty_cells, seconds, is_timer_running,
                   is_error, is_hint, slider, difficulty, file, scores,
                   shuffles>>

click == \E rc \in ClickCells : cell_clicked(rc)

-----------------------------------------------------------------------------
(* SudokuMaster.number_clicked, save_score_prompt, _save_score *)

\* Bounded input: the digits the player enters (9 is the solution's digit at
\* (0, 0) and 3 at (0, 7)), and the names typed into the score prompt.
NumberInputs == {3, 9}
NameInputs == {"", "Ann"}

\* Caps of the counters that the program lets grow without bound.
MaxMistakeCount == 2
MaxHintCount == 2
MaxScoreRows == 2
MaxSeconds == 1

\* The cap of the mistake counter: a game is followed for MaxMistakeCount
\* mistakes, and a game that is one mistake short of max_mistakes for
\* MaxMistakeCount mistakes past max_mistakes.
MistakeCap(m) ==
    IF m >= max_mistakes - 1 THEN max_mistakes + MaxMistakeCount
    ELSE MaxMistakeCount

\* name.strip() or "Anonymous"
PlayerName(name) == IF name = "" THEN "Anonymous" ELSE name

score_row(name, board) ==
    [player_name  |-> PlayerName(name),
     time_seconds |-> seconds,
     mistakes     |-> mistakes',
     hints_used   |-> hints_used,
     filled_cells |-> get_filled_count(board),
     empty_cells  |-> empty_cells]

\* The tail of number_clicked: when the board is fully solved the timer is
\* stopped, the player is congratulated and asked for a name; unless the
\* prompt is cancelled a row is inserted into the scores table.  names: the
\* names the player may enter (the prompt can always be cancelled).
number_clicked_tail(board, shown, names) ==
    IF IsFullySolved(solution_board, board)
    THEN /\ is_timer_running' = FALSE
         /\ \/ /\ scores' = scores
               /\ dialog' = shown \o <<"Congratulations">>
            \/ /\ Len(scores) < MaxScoreRows
               /\ \E name \in names :
                    scores' = Append(scores, score_row(name, board))
               /\ dialog' = shown \o <<"Congratulations", "Saved">>
    ELSE /\ dialog' = shown
         /\ UNCHANGED <<is_timer_running, scores>>

\* A variant that takes a mistake back when the wrong value is erased.
number_clicked_forgiving(number, names) ==
    /\ raised' = ""
    /\ op' = "number_clicked"
    /\ UNCHANGED clicked
    /\ arg' = number
    /\ returned' = <<>>
    /\ UNCHANGED <<solution_board, immutable_cells, hints_used, empty_cells,
                   selected_cell, seconds, is_selected, slider, difficulty,
                   file, shuffles>>
    /\ IF selected_cell = NoCell
       THEN /\ status' = "Please select a cell first."
            /\ dialog' = <<>>
            /\ UNCHANGED <<game_board, mistakes, is_error, is_hint,
                           is_timer_running, scores>>
       ELSE IF number = EMPTY
       THEN /\ game_board' = [game_board EXCEPT ![selected_cell] = EMPTY]
            /\ is_error' = is_error \ {selected_cell}
            /\ is_hint' = is_hint \ {selected_cell}
            /\ mistakes' = IF selected_cell \in is_error
                           THEN mistakes - 1 ELSE mistakes
            /\ status' = "Cell cleared"
            /\ number_clicked_tail(game_board', <<>>, names)
       ELSE IF is_valid_move(selected_cell, number[1])
       THEN /\ game_board' = [game_board EXCEPT ![selected_cell] = <<number[1]>>]
            /\ is_error' = is_error \ {selected_cell}
            /\ is_hint' = is_hint \ {selected_cell}
            /\ mistakes' = mistakes
            /\ status' = "Correct"
            /\ number_clicked_tail(game_board', <<>>, names)
       ELSE /\ mistakes < MistakeCap(mistakes)
            /\ mistakes' = mistakes + 1
            /\ game_board' = [game_board EXCEPT ![selected_cell] = <<number[1]>>]
            /\ is_error' = is_error \cup {selected_cell}
            /\ is_hint' = is_hint \ {selected_cell}
            /\ status' = "Incorrect"
            /\ number_clicked_tail(game_board',
                                   IF mistakes' >= max_mistakes
                                   THEN <<"Game Over">> ELSE <<>>,
                                   names)

\* A variant whose number pad is switched off once max_mistakes is reached.
number_clicked_game_over(number, names) ==
    /\ raised' = ""
    /\ op' = "number_clicked"
    /\ UNCHANGED clicked
    /\ arg' = number
    /\ returned' = <<>>
    /\ UNCHANGED <<solution_board, immutable_cells, hints_used, empty_cells,
                   selected_cell, seconds, is_selected, slider, difficulty,
                   file, shuffles>>
    /\ IF mistakes >= max_mistakes
       THEN /\ status' = "Game Over"
            /\ dialog' = <<>>
            /\ UNCHANGED <<game_board, mistakes, is_error, is_hint,
                           is_timer_running, scores>>
       ELSE IF selected_cell = NoCell
       THEN /\ status' = "Please select a cell first."
            /\ dialog' = <<>>
            /\ UNCHANGED <<game_board, mistakes, is_error, is_hint,
                           is_timer_running, scores>>
       ELSE IF number = EMPTY
       THEN /\ game_board' = [game_board EXCEPT ![selected_cell] = EMPTY]
            /\ is_error' = is_error \ {selected_cell}
            /\ is_hint' = is_hint \ {selected_cell}
            /\ mistakes' = mistakes
            /\ status' = "Cell cleared"
            /\ number_clicked_tail(game_board', <<>>, names)
       ELSE IF is_valid_move(selected_cell, number[1])
       THEN /\ game_board' = [game_board EXCEPT ![selected_cell] = <<number[1]>>]
            /\ is_error' = is_error \ {selected_cell}
            /\ is_hint' = is_hint \ {selected_cell}
            /\ mistakes' = mistakes
            /\ status' = "Correct"
            /\ number_clicked_tail(game_board', <<>>, names)
       ELSE /\ mistakes < MistakeCap(mistakes)
            /\ mistakes' = mistakes + 1
            /\ game_board' = [game_board EXCEPT ![selected_cell] = <<number[1]>>]
            /\ is_error' = is_error \cup {selected_cell}
            /\ is_hint' = is_hint \ {selected_cell}
            /\ status' = "Incorrect"
            /\ number_clicked_tail(game_board',
                                   IF mistakes' >= max_mistakes
                                   THEN <<"Game Over">> ELSE <<>>,
                                   names)

\* number: EMPTY for the Erase button (""), <<n>> for the digit n.
number_clicked(number, names) ==
    /\ raised' = ""
    /\ op' = "number_clicked"
    /\ UNCHANGED clicked
    /\ arg' = number
    /\ returned' = <<>>
    /\ UNCHANGED <<solution_board, immutable_cells, hints_used, empty_cells,
                   selected_cell, seconds, is_selected, slider, difficulty,
                   file, shuffles>>
    /\ IF selected_cell = NoCell
       THEN /\ status' = "Please select a cell first."
            /\ dialog' = <<>>
            /\ UNCHANGED <<game_board, mistakes, is_error, is_hint,
                           is_timer_running, scores>>
       ELSE IF number = EMPTY
       THEN /\ game_board' = [game_board EXCEPT ![selected_cell] = EMPTY]
            /\ is_error' = is_error \ {selected_cell}
            /\ is_hint' = is_hint \ {selected_cell}
            /\ mistakes' = mistakes
            /\ status' = "Cell cleared"
            /\ number_clicked_tail(game_board', <<>>, names)
       ELSE IF is_valid_move(selected_cell, number[1])
       THEN /\ game_board' = [game_board EXCEPT ![selected_cell] = <<number[1]>>]
            /\ is_error' = is_error \ {selected_cell}
            /\ is_hint' = is_hint \ {selected_cell}
            /\ mistakes' = mistakes
            /\ status' = "Correct"
            /\ number_clicked_tail(game_board', <<>>, names)
       ELSE /\ mistakes < MistakeCap(mistakes)
            /\ mistakes' = mistakes + 1
            /\ game_board' = [game_board EXCEPT ![selected_cell] = <<number[1]>>]
            /\ is_error' = is_error \cup {selected_cell}
            /\ is_hint' = is_hint \ {selected_cell}
            /\ status' = "Incorrect"
            /\ number_clicked_tail(game_board',
                                   IF mistakes' >= max_mistakes
                                   THEN <<"Game Over">> ELSE <<>>,
                                   names)

\* The player cancels the score prompt.
number_button == \E n \in NumberInputs : number_clicked(<<n>>, {})

erase_button == number_clicked(EMPTY, {})

\* The player may enter a name into the score prompt.
number_button_scored == \E n \in NumberInputs : number_clicked(<<n>>, NameInputs)

-----------------------------------------------------------------------------
(* SudokuGame.is_valid_move as a caller outside the window may use it *)

\* Bounded input: row and column numbers a caller may pass, in and out of 0..8.
CoordInputs == {-10, -9, -1, 0, 8, 9}

\* An index into a sequence of nine: a negative index counts from the end.
wrapped(i) == IF i < 0 THEN i + SIDE ELSE i

\* is_valid_move(row, col, num) called with any integers.  Indexing the 9x9
\* array raises IndexError outside -9..8 and counts a negative index from the
\* end; nothing of the session is written.
call_is_valid_move(row, col, num) ==
    /\ op' = "is_valid_move"
    /\ arg' = <<row, col, num>>
    /\ IF solution_board = NoBoard \/ <<row, col>> \in immutable_cells
       THEN raised' = "" /\ returned' = <<FALSE>>
       ELSE IF row \notin (0 - SIDE) .. (SIDE - 1) \/ col \notin (0 - SIDE) .. (SIDE - 1)
       THEN raised' = "IndexError" /\ returned' = <<>>
       ELSE /\ raised' = ""
            /\ returned' = <<solution_board[<<wrapped(row), wrapped(col)>>] = num>>
    /\ status' = ""
    /\ dialog' = <<>>
    /\ UNCHANGED <<solution_board, game_board, immutable_cells, mistakes,
                   hints_used, empty_cells, selected_cell, seconds,
                   is_timer_running, is_error, is_hint, is_selected, slider,
                   difficulty, file, scores, shuffles, clicked>>

is_valid_move_any ==
    \E row \in CoordInputs, col \in CoordInputs, num \in NumberInputs :
        call_is_valid_move(row, col, num)

-----------------------------------------------------------------------------
(* SudokuMaster.keyPressEvent *)

\* Bounded input: key events, each with the text it produces and the key.
KeyEvents ==
    { [text |-> "3", key |-> "3"],
      [text |-> "9", key |-> "9"],
      [text |-> "0", key |-> "0"],
      [text |-> "a", key |-> "A"],
      [text |-> "", key |-> "Shift"],
      [text |-> "BS", key |-> "Backspace"],
      [text |-> "DEL", key |-> "Delete"],
      [text |-> "ESC", key |-> "Escape"] }

\* A variant that also takes "0" for a digit.
is_digit_text_zero(text) == text \in {DecStr(n) : n \in 0 .. 9}

\* text and text in "123456789", for the text of a single key.
is_digit_text(text) == text # "" /\ text \in {DecStr(n) : n \in 1 .. 9}

\* int(text) for a text of one decimal digit.
int(text) == CHOOSE n \in 0 .. 9 : DecStr(n) = text

\* A key press that ends without calling number_clicked; sel is the selection
\* it leaves.
key_ignored(sel) ==
    /\ selected_cell' = sel
    /\ is_selected' = IF sel = NoCell THEN is_selected \ {selected_cell}
                      ELSE is_selected
    /\ clicked' = IF sel = selected_cell THEN clicked ELSE NoCell
    /\ op' = "keyPressEvent"
    /\ arg' = <<>>
    /\ returned' = <<>>
    /\ status' = ""
    /\ dialog' = <<>>
    /\ raised' = ""
    /\ UNCHANGED <<solution_board, game_board, immutable_cells, mistakes,
                   hints_used, empty_cells, seconds, is_timer_running,
                   is_error, is_hint, slider, difficulty, file, scores,
                   shuffles>>

keyPressEvent(event) ==
    IF selected_cell = NoCell THEN key_ignored(NoCell)
    ELSE IF is_digit_text(event.text)
    THEN number_clicked(<<int(event.text)>>, {})
    ELSE IF event.key \in {"Backspace", "Delete"}
    THEN number_clicked(EMPTY, {})
    ELSE IF event.key = "Escape" THEN key_ignored(NoCell)
    ELSE key_ignored(selected_cell)

key_press == \E event \in KeyEvents : keyPressEvent(event)

-----------------------------------------------------------------------------
(* SudokuGame.get_hint, SudokuMaster.show_hint *)

\* A variant that scans from the last cell backwards.
get_hint_last ==
    IF EmptyCells(game_board) = <<>> THEN NoCell
    ELSE EmptyCells(game_board)[Len(EmptyCells(game_board))]

\* The first cell holding "" in row-major order, NoCell if there is none.  The
\* source reads the solution there, which raises TypeError when it is None.
get_hint ==
    IF EmptyCells(game_board) = <<>> THEN NoCell ELSE EmptyCells(game_board)[1]

\* The cell show_hint reveals: the selected cell if it is empty, else get_hint.
hint_target ==
    IF selected_cell # NoCell /\ game_board[selected_cell] = EMPTY
    THEN selected_cell
    ELSE get_hint

show_hint ==
    /\ op' = "show_hint"
    /\ arg' = <<>>
    /\ returned' = <<>>
    /\ dialog' = <<>>
    /\ UNCHANGED <<solution_board, immutable_cells, mistakes, empty_cells,
                   seconds, is_timer_running, slider, difficulty, file,
                   scores, shuffles>>
    /\ \E rc \in {hint_target} :
         IF rc = NoCell
         THEN /\ status' = "No empty cells left."
              /\ raised' = ""
              /\ UNCHANGED <<game_board, hints_used, selected_cell, is_error,
                             is_hint, is_selected, clicked>>
         ELSE IF solution_board = NoBoard
         THEN \* self.game.solution_board[row][col] on None
              /\ raised' = "TypeError"
              /\ status' = ""
              /\ UNCHANGED <<game_board, hints_used, selected_cell, is_error,
                             is_hint, is_selected, clicked>>
         ELSE /\ hints_used < MaxHintCount
              /\ game_board' = [game_board EXCEPT ![rc] = <<solution_board[rc]>>]
              /\ is_error' = is_error \ {rc}
              /\ is_hint' = is_hint \cup {rc}
              /\ hints_used' = hints_used + 1
              /\ selected_cell' = rc
              /\ is_selected' = (is_selected \ {selected_cell}) \cup {rc}
              /\ clicked' = IF rc = selected_cell THEN clicked ELSE NoCell
              /\ status' = "Hint"
              /\ raised' = ""

-----------------------------------------------------------------------------
(* SudokuMaster.check_solution, toggle_timer, update_timer *)

\* returned: the handler's return value and the list it collected (shown in
\* the "Found ... incorrect cells" box); nothing is collected when the board
\* is fully solved.
check_solution ==
    /\ op' = "check_solution"
    /\ UNCHANGED clicked
    /\ arg' = <<>>
    /\ status' = ""
    /\ IF _is_fully_solved
       THEN /\ dialog' = <<"Perfect">>
            /\ raised' = ""
            /\ returned' = <<TRUE, <<>>>>
       ELSE IF solution_board = NoBoard /\ immutable_cells # Coords
       THEN \* self.game.solution_board[i][j] on None
            /\ dialog' = <<>>
            /\ raised' = "TypeError"
            /\ returned' = <<>>
       ELSE IF solution_board # NoBoard /\ incorrect_cells # <<>>
       THEN /\ dialog' = <<"Found incorrect cells">>
            /\ raised' = ""
            /\ returned' = <<FALSE, incorrect_cells>>
       ELSE /\ dialog' = <<>>
            /\ raised' = ""
            /\ returned' = <<FALSE, <<>>>>
    /\ UNCHANGED <<solution_board, game_board, immutable_cells, mistakes,
                   hints_used, empty_cells, selected_cell, seconds,
                   is_timer_running, is_error, is_hint, is_selected, slider,
                   difficulty, file, scores, shuffles>>

toggle_timer ==
    /\ is_timer_running' = ~is_timer_running
    /\ op' = "toggle_timer"
    /\ UNCHANGED clicked
    /\ arg' = <<>>
    /\ returned' = <<>>
    /\ status' = ""
    /\ dialog' = <<>>
    /\ raised' = ""
    /\ UNCHANGED <<solution_board, game_board, immutable_cells, mistakes,
                   hints_used, empty_cells, selected_cell, seconds, is_error,
                   is_hint, is_selected, slider, difficulty, file, scores,
                   shuffles>>

\* A variant that sets the empty-cell target to the number of cells holding "".
update_timer_rederives ==
    /\ is_timer_running
    /\ seconds < MaxSeconds
    /\ seconds' = seconds + 1
    /\ empty_cells' = Cardinality({rc \in Coords : game_board[rc] = EMPTY})
    /\ op' = "update_timer"
    /\ UNCHANGED clicked
    /\ arg' = <<>>
    /\ returned' = <<>>
    /\ status' = ""
    /\ dialog' = <<>>
    /\ raised' = ""
    /\ UNCHANGED <<solution_board, game_board, immutable_cells, mistakes,
                   hints_used, selected_cell, is_timer_running,
                   is_error, is_hint, is_selected, slider, difficulty, file,
                   scores, shuffles>>

\* A variant that counts two seconds per tick.
update_timer_double ==
    /\ is_timer_running
    /\ seconds < MaxSeconds
    /\ seconds' = seconds + 2
    /\ op' = "update_timer"
    /\ UNCHANGED clicked
    /\ arg' = <<>>
    /\ returned' = <<>>
    /\ status' = ""
    /\ dialog' = <<>>
    /\ raised' = ""
    /\ UNCHANGED <<solution_board, game_board, immutable_cells, mistakes,
                   hints_used, empty_cells, selected_cell, is_timer_running,
                   is_error, is_hint, is_selected, slider, difficulty, file,
                   scores, shuffles>>

\* The QTimer's timeout, which fires only while the timer is started; the
\* timer is started exactly when is_timer_running is set.
update_timer ==
    /\ is_timer_running
    /\ seconds < MaxSeconds
    /\ seconds' = seconds + 1
    /\ op' = "update_timer"
    /\ UNCHANGED clicked
    /\ arg' = <<>>
    /\ returned' = <<>>
    /\ status' = ""
    /\ dialog' = <<>>
    /\ raised' = ""
    /\ UNCHANGED <<solution_board, game_board, immutable_cells, mistakes,
                   hints_used, empty_cells, selected_cell, is_timer_running,
                   is_error, is_hint, is_selected, slider, difficulty, file,
                   scores, shuffles>>

-----------------------------------------------------------------------------
(* SudokuMaster.save_game *)

\* A payload is the JSON object of a .sdj file: the set of its keys and the
\* value under each (null is NoBoard).
PayloadKeys ==
    {"solution_board", "game_board", "immutable_cells", "mistakes",
     "hints_used", "empty_cells", "seconds", "is_timer_running", "cells_meta"}

KeyOrder ==
    <<"solution_board", "game_board", "immutable_cells", "mistakes",
      "hints_used", "empty_cells", "seconds", "is_timer_running", "cells_meta">>

\* sorted(self.game.immutable_cells): the tuples in lexicographic order.
SortedCells(S) == SelectSeq(all_cells, LAMBDA rc : rc \in S)

\* A variant that writes each flag under the other's name.
CellsMetaSwapped(err, hint) ==
    [rc \in Coords |-> [is_error |-> rc \in hint, is_hint |-> rc \in err]]

\* The 9x9 list of {"is_error": ..., "is_hint": ...} objects.
CellsMeta(err, hint) ==
    [rc \in Coords |-> [is_error |-> rc \in err, is_hint |-> rc \in hint]]

\* The dict save_game builds from the session.
save_payload ==
    [keys             |-> PayloadKeys,
     solution_board   |-> solution_board,
     game_board       |-> game_board,
     immutable_cells  |-> SortedCells(immutable_cells),
     mistakes         |-> mistakes,
     hints_used       |-> hints_used,
     empty_cells      |-> empty_cells,
     seconds          |-> seconds,
     is_timer_running |-> is_timer_running,
     cells_meta       |-> CellsMeta(is_error, is_hint)]

\* The file dialog is cancelled, or the payload is written to the file.
save_game ==
    /\ \/ file' = file /\ dialog' = <<>>
       \/ file' = save_payload /\ dialog' = <<"Saved">>
    /\ op' = "save_game"
    /\ UNCHANGED clicked
    /\ arg' = <<>>
    /\ returned' = <<>>
    /\ status' = ""
    /\ raised' = ""
    /\ UNCHANGED <<solution_board, game_board, immutable_cells, mistakes,
                   hints_used, empty_cells, selected_cell, seconds,
                   is_timer_running, is_error, is_hint, is_selected, slider,
                   difficulty, scores, shuffles>>

-----------------------------------------------------------------------------
(* SudokuMaster.load_game *)

\* A variant that reads the field whether or not the key is present.
GetField(data, key, default) == data[key]

\* data.get(key, default); a key that is absent gives the default.
Get(data, key, default) == IF key \in data.keys THEN data[key] ELSE default

\* The keys of a full payload that data lacks, in the order save_game writes
\* them.
MissingKeys(data) == SelectSeq(KeyOrder, LAMBDA k : k \notin data.keys)

\* load_game on the parsed payload data.  The solution is taken from the
\* payload first; only then is the board looked up, and a payload without it
\* ends the handler with an error box.
load_game(data) ==
    /\ op' = "load_game"
    /\ arg' = MissingKeys(data)
    /\ returned' = <<>>
    /\ raised' = ""
    /\ solution_board' = Get(data, "solution_board", NoBoard)
    /\ IF Get(data, "game_board", NoBoard) = NoBoard
       THEN /\ dialog' = <<"Invalid save file: missing game_board">>
            /\ status' = ""
            /\ UNCHANGED <<game_board, immutable_cells, mistakes, hints_used,
                           empty_cells, selected_cell, seconds,
                           is_timer_running, is_error, is_hint, is_selected,
                           clicked>>
       ELSE /\ game_board' = data.game_board
            /\ immutable_cells' =
                 LET im == Get(data, "immutable_cells", <<>>)
                 IN  {im[i] : i \in DOMAIN im}
            /\ mistakes' = Get(data, "mistakes", 0)
            /\ hints_used' = Get(data, "hints_used", 0)
            /\ empty_cells' = Get(data, "empty_cells", SLIDER_DEFAULT)
            /\ seconds' = Get(data, "seconds", 0)
            /\ is_timer_running' = Get(data, "is_timer_running", FALSE)
            /\ is_error' = IF "cells_meta" \in data.keys
                           THEN {rc \in Coords : data.cells_meta[rc].is_error}
                           ELSE {}
            /\ is_hint' = IF "cells_meta" \in data.keys
                          THEN {rc \in Coords : data.cells_meta[rc].is_hint}
                          ELSE {}
            /\ is_selected' = {}
            /\ selected_cell' = NoCell
            /\ clicked' = NoCell
            /\ status' = "Game loaded successfully."
            /\ dialog' = <<>>
    /\ UNCHANGED <<slider, difficulty, file, scores, shuffles>>

\* Files from earlier sessions.  SaveA: the game of ShuffleA at 40 empty cells,
\* every emptied cell entered correctly except (0, 0), still empty, and (0, 7),
\* holding a wrong 9; (0, 1) was revealed by a hint; the timer was started
\* and stopped.  SaveB: the game of ShuffleB at 40 empty cells, untouched.
SaveA ==
    [keys             |-> PayloadKeys,
     solution_board   |-> GameBoards[ShuffleA],
     game_board       |-> [rc \in Coords |->
                              IF rc = <<0, 0>> THEN EMPTY
                              ELSE IF rc = <<0, 7>> THEN <<9>>
                              ELSE <<GameBoards[ShuffleA][rc]>>],
     immutable_cells  |-> SortedCells(Coords \ StripedMask(SLIDER_DEFAULT)),
     mistakes         |-> 1,
     hints_used       |-> 1,
     empty_cells      |-> SLIDER_DEFAULT,
     seconds          |-> 1,
     is_timer_running |-> FALSE,
     cells_meta       |-> CellsMeta({<<0, 7>>}, {<<0, 1>>})]

SaveB ==
    [keys             |-> PayloadKeys,
     solution_board   |-> GameBoards[ShuffleB],
     game_board       |-> masked_board(GameBoards[ShuffleB], SpreadMask(SLIDER_DEFAULT)),
     immutable_cells  |-> SortedCells(Coords \ SpreadMask(SLIDER_DEFAULT)),
     mistakes         |-> 0,
     hints_used       |-> 0,
     empty_cells      |-> SLIDER_DEFAULT,
     seconds          |-> 0,
     is_timer_running |-> FALSE,
     cells_meta       |-> CellsMeta({}, {})]

\* SaveA as it is written when the player had made one mistake less than
\* max_mistakes.
SaveLimit == [SaveA EXCEPT !.mistakes = max_mistakes - 1]

\* A payload with some of its keys removed.
WithoutKeys(data, ks) == [data EXCEPT !.keys = @ \ ks]

\* Bounded input: the files the player opens.
FilesToOpen ==
    { SaveA,
      WithoutKeys(SaveA, {"solution_board", "mistakes", "hints_used", "cells_meta"}),
      WithoutKeys(SaveB, {"game_board"}) }

open_file == \E data \in FilesToOpen : load_game(data)

\* The file written by save_game is opened again.
open_saved_file == file # NoFile /\ load_game(file)

-----------------------------------------------------------------------------
(* SudokuMaster.__init__: the widgets' defaults, then new_game() *)

Init ==
    \E sh \in GameShuffles :
      \E sol \in {GameBoards[sh]} :
        \E cells_to_empty \in MaskChoices(sh, SLIDER_DEFAULT) :
            /\ shuffles = sh
            /\ solution_board = sol
            /\ game_board = masked_board(sol, cells_to_empty)
            /\ immutable_cells = Coords \ cells_to_empty
            /\ empty_cells = SLIDER_DEFAULT
            /\ is_error = {}
            /\ is_hint = {}
            /\ is_selected = {}
            /\ selected_cell = NoCell
            /\ mistakes = 0
            /\ hints_used = 0
            /\ seconds = 0
            /\ is_timer_running = FALSE
            /\ slider = SLIDER_DEFAULT
            /\ difficulty = "Medium"
            /\ status = "New game started"
            /\ dialog = <<>>
            /\ file = NoFile
            /\ scores = <<>>
            /\ raised = ""
            /\ clicked = NoCell
            /\ arg = <<>>
            /\ returned = <<>>
            /\ op = "new_game"

Next ==
    \/ new_game
    \/ click
    \/ number_button
    \/ erase_button
    \/ show_hint
    \/ open_file

Spec == Init /\ [][Next]_vars

\* The player plays one game and runs the timer; once the game has been saved
\* the player only runs the timer, saves again and opens what was saved.
NextPersist ==
    \/ file = NoFile /\ cell_clicked(<<0, 0>>)
    \/ file = NoFile /\ number_button
    \/ file = NoFile /\ erase_button
    \/ file = NoFile /\ show_hint
    \/ file = NoFile /\ check_solution
    \/ toggle_timer
    \/ update_timer
    \/ save_game
    \/ open_saved_file

PersistSpec == Init /\ [][NextPersist]_vars

\* The player opens files, enters digits and presses Check Solution.
NextCheck == open_file \/ click \/ number_button \/ check_solution

CheckSpec == Init /\ [][NextCheck]_vars

\* The player plays with the keyboard, the number pad and the hint button.
NextKeys ==
    \/ new_game
    \/ click
    \/ key_press
    \/ number_button
    \/ erase_button
    \/ show_hint

KeySpec == Init /\ [][NextKeys]_vars

\* is_valid_move alone, called on a new game with coordinates in and out of
\* range.
NextCoord == is_valid_move_any

CoordSpec == Init /\ [][NextCoord]_vars

\* The player resumes the nearly finished game of an earlier session.
open_unfinished == load_game(SaveA)

\* The player resumes the unfinished game and plays to the end with the timer.
NextEnd ==
    \/ open_unfinished
    \/ click
    \/ number_button
    \/ show_hint
    \/ toggle_timer
    \/ update_timer

EndSpec == Init /\ [][NextEnd]_vars

\* The player resumes the unfinished game, plays it to the end and may enter a
\* name each time one is asked for.
NextScore ==
    \/ open_unfinished
    \/ click
    \/ number_button_scored
    \/ erase_button
    \/ show_hint

ScoreSpec == Init /\ [][NextScore]_vars

\* The player resumes the unfinished game one mistake short of max_mistakes.
open_at_limit == load_game(SaveLimit)

\* The player resumes that game and plays on past max_mistakes.
NextLimit ==
    \/ open_at_limit
    \/ click
    \/ number_button
    \/ erase_button
    \/ show_hint

LimitSpec == Init /\ [][NextLimit]_vars

\* The player plays on one cell with the timer and starts new games.
NextReset ==
    \/ new_game
    \/ cell_clicked(<<0, 0>>)
    \/ number_button
    \/ erase_button
    \/ show_hint
    \/ toggle_timer
    \/ update_timer

ResetSpec == Init /\ [][NextReset]_vars

\* The player only moves the slider, picks a difficulty and starts games.
NextNewGame == new_game \/ on_slider_changed \/ select_difficulty

NewGameSpec == Init /\ [][NextNewGame]_vars

-----------------------------------------------------------------------------
(* generate_sudoku alone, over a wide set of draws *)

\* Every band (stack) order and every order within each band (stack).
AllBandDraws == {<<o, <<a, b, c>>>> : o \in Perms3, a \in Perms3, b \in Perms3, c \in Perms3}

SomeBandDraws ==
    { <<(<<0, 1, 2>>), <<(<<0, 1, 2>>), (<<0, 1, 2>>), (<<0, 1, 2>>)>>>>,
      <<(<<2, 0, 1>>), <<(<<1, 0, 2>>), (<<0, 2, 1>>), (<<2, 1, 0>>)>>>>,
      <<(<<1, 2, 0>>), <<(<<2, 0, 1>>), (<<1, 2, 0>>), (<<0, 1, 2>>)>>>> }

SomeDigitDraws ==
    { <<1, 2, 3, 4, 5, 6, 7, 8, 9>>,
      <<9, 8, 7, 6, 5, 4, 3, 2, 1>>,
      <<4, 9, 2, 7, 1, 8, 3, 6, 5>> }

\* SudokuGame.__init__, with the draws the coming call will make.
InitGen ==
    \* every row draw with some column draws, and every column draw with
    \* some row draws
    /\ \E d \in SomeDigitDraws :
         \/ \E r \in AllBandDraws, c \in SomeBandDraws :
               shuffles = [ro |-> r[1], ri |-> r[2], co |-> c[1], ci |-> c[2], nums |-> d]
         \/ \E r \in SomeBandDraws, c \in AllBandDraws :
               shuffles = [ro |-> r[1], ri |-> r[2], co |-> c[1], ci |-> c[2], nums |-> d]
    /\ solution_board = NoBoard
    /\ game_board = NoBoard
    /\ immutable_cells = {}
    /\ mistakes = 0
    /\ hints_used = 0
    /\ empty_cells = SLIDER_DEFAULT
    /\ is_error = {}
    /\ is_hint = {}
    /\ is_selected = {}
    /\ selected_cell = NoCell
    /\ seconds = 0
    /\ is_timer_running = FALSE
    /\ slider = SLIDER_DEFAULT
    /\ difficulty = "Medium"
    /\ status = ""
    /\ dialog = <<>>
    /\ file = NoFile
    /\ scores = <<>>
    /\ raised = ""
    /\ clicked = NoCell
    /\ arg = <<>>
    /\ returned = <<>>
    /\ op = "__init__"

\* self.solution_board = self.generate_sudoku()
generate ==
    /\ op = "__init__"
    /\ solution_board' = generate_sudoku(shuffles)
    /\ op' = "generate_sudoku"
    /\ UNCHANGED clicked
    /\ arg' = <<>>
    /\ returned' = <<>>
    /\ UNCHANGED <<game_board, immutable_cells, mistakes, hints_used,
                   empty_cells, selected_cell, seconds, is_timer_running,
                   is_error, is_hint, is_selected, slider, difficulty, status,
                   dialog, file, scores, shuffles, raised>>

NextGen == generate

GenSpec == InitGen /\ [][NextGen]_vars

-----------------------------------------------------------------------------
(* Properties *)

Digits == 1 .. 9

RowOf(b, r) == {b[<<r, c>>] : c \in 0 .. 8}
ColOf(b, c) == {b[<<r, c>>] : r \in 0 .. 8}
BoxOf(b, k) == {b[<<3 * (k \div 3) + i, 3 * (k % 3) + j>>] : i \in 0 .. 2, j \in 0 .. 2}

\* Nine cells holding nine distinct digits of 1..9 hold each digit exactly once.
IsValidGrid(b) ==
    /\ DOMAIN b = Coords
    /\ \A k \in 0 .. 8 : RowOf(b, k) = Digits /\ ColOf(b, k) = Digits /\ BoxOf(b, k) = Digits

\* C3: every grid generate_sudoku produces, for every band order, order within
\* each band, stack order, order within each stack and digit permutation drawn,
\* has each of 1..9 exactly once in every row, every column and every 3x3 box.
C3_GeneratedGridValid ==
    op = "generate_sudoku" => IsValidGrid(solution_board)

\* A grid was generated with bands, rows, stacks and columns all out of order.
C3_Witness ==
    /\ op = "generate_sudoku"
    /\ shuffles.ro = <<2, 0, 1>>
    /\ shuffles.ri[1] = <<2, 1, 0>>
    /\ shuffles.co = <<1, 2, 0>>
    /\ shuffles.ci[1] = <<2, 0, 1>>
    /\ shuffles.nums = <<4, 9, 2, 7, 1, 8, 3, 6, 5>>
    /\ solution_board[<<0, 0>>] = 1

\* The session: what a save file holds of the game.
session == <<solution_board, game_board, immutable_cells, mistakes, hints_used,
             empty_cells, seconds, is_timer_running, is_error, is_hint>>

\* C1: after any sequence of cell selections, number entries, erasures and
\* hints interleaved with new games and loads, every immutable cell holds on
\* the board the solution's value at that cell (stated for the sessions that
\* have a solution).
C1_FixedCellsHoldSolution ==
    solution_board # NoBoard =>
        \A rc \in immutable_cells : game_board[rc] = <<solution_board[rc]>>

\* C2: a load whose payload has no game_board shows the error box and leaves
\* the session as it was: solution, board, immutable cells, mistakes, hints,
\* empty-cell target, seconds, timer flag and the cells' error and hint flags.
C2_FailedLoadLeavesSession ==
    [][(op' = "load_game" /\ dialog' = <<"Invalid save file: missing game_board">>)
          => UNCHANGED session]_vars

\* The list check_solution collects is empty (the walk raises when there is
\* no solution and a cell to compare).
check_list_empty ==
    IF solution_board = NoBoard THEN immutable_cells = Coords
    ELSE incorrect_cells = <<>>

\* C4: in every reachable state _is_fully_solved is true exactly when
\* check_solution collects no incorrect non-immutable cell and the filled
\* count is 81.
C4_SolvedIffCheckedAndFilled ==
    _is_fully_solved <=> (check_list_empty /\ get_filled_count(game_board) = 81)

\* C5: loading the file that save_game wrote from the very state that is
\* still in memory leaves solution, board, immutable cells, mistakes, hints,
\* empty-cell target, seconds, timer flag and the cells' error and hint flags
\* as they were when saved, and after any load of a saved file a further save
\* would write a payload equal to the file, field for field.
C5_SaveLoadRoundTrip ==
    [][(op' = "load_game" /\ status' = "Game loaded successfully.")
          => /\ save_payload' = file
             /\ (file = save_payload => UNCHANGED session)]_vars

\* A file holding mistakes, hints, seconds, a running timer, an error flag and
\* a hint flag was loaded back.
C5_Witness ==
    /\ op = "load_game"
    /\ status = "Game loaded successfully."
    /\ file # NoFile
    /\ save_payload = file
    /\ mistakes > 0 /\ hints_used > 0 /\ seconds > 0
    /\ is_timer_running
    /\ is_error # {} /\ is_hint # {} /\ is_error # is_hint

\* C6: entering a digit on the selected (never immutable) cell stores the
\* digit there and nowhere else; it is reported Correct exactly when the digit
\* equals the solution at that cell, and then mistakes is unchanged; otherwise
\* it is reported Incorrect and mistakes grows by exactly 1.
C6_PlacementScored ==
    [][(op' = "number_clicked" /\ selected_cell # NoCell /\ arg' # EMPTY)
          => /\ selected_cell \notin immutable_cells
             /\ game_board' = [game_board EXCEPT ![selected_cell] = arg']
             /\ status' \in {"Correct", "Incorrect"}
             /\ status' = "Correct" <=>
                   (/\ solution_board # NoBoard
                    /\ solution_board[selected_cell] = arg'[1])
             /\ mistakes' = IF status' = "Correct" THEN mistakes ELSE mistakes + 1]_vars

\* A wrong digit was entered, stored and counted.
C6_Witness ==
    /\ op = "number_clicked"
    /\ status = "Incorrect"
    /\ selected_cell # NoCell
    /\ arg # EMPTY
    /\ game_board[selected_cell] = arg
    /\ solution_board # NoBoard
    /\ solution_board[selected_cell] # arg[1]
    /\ mistakes = 1

\* C7: a show_hint that finds an empty cell writes the solution's value into
\* one empty cell, changes no other cell and adds exactly 1 to hints_used; a
\* show_hint with no empty cell on the board changes neither the board nor
\* hints_used.
C7_HintRevealsSolution ==
    [][op' = "show_hint"
          => IF EmptyCells(game_board) # <<>>
             THEN /\ solution_board # NoBoard
                  /\ \E rc \in Coords :
                        /\ game_board[rc] = EMPTY
                        /\ game_board' = [game_board EXCEPT ![rc] = <<solution_board[rc]>>]
                  /\ hints_used' = hints_used + 1
             ELSE UNCHANGED <<game_board, hints_used>>]_vars

\* The cells that hold "" on the board.
masked_cells == {rc \in Coords : game_board[rc] = EMPTY}

C9_NewGamePartition ==
    op = "new_game" =>
        /\ empty_cells \in SLIDER_MIN .. SLIDER_MAX
        /\ immutable_cells \cap masked_cells = {}
        /\ immutable_cells \cup masked_cells = Coords
        /\ Cardinality(masked_cells) = empty_cells
        /\ Cardinality(immutable_cells) + Cardinality(masked_cells) = 81
        /\ \A rc \in immutable_cells : game_board[rc] = <<solution_board[rc]>>
        /\ \A rc \in Coords \ immutable_cells : game_board[rc] = EMPTY
        /\ mistakes = 0 /\ hints_used = 0

\* A game was created with 37 cells to empty.
C9_Witness ==
    /\ op = "new_game"
    /\ empty_cells = 37
    /\ Cardinality(masked_cells) = 37
    /\ shuffles = ShuffleB

\* C10: a number entry or erasure made right after the player clicked an
\* immutable cell changes nothing of the session, and no number entry or
\* erasure ever changes the board at an immutable cell.
C10_FixedCellRejected ==
    [][op' = "number_clicked"
          => /\ \A rc \in immutable_cells : game_board'[rc] = game_board[rc]
             /\ (clicked \in immutable_cells => UNCHANGED session)]_vars

\* A digit was entered right after a click on an immutable cell.
C10_Witness ==
    /\ op = "number_clicked"
    /\ clicked \in immutable_cells
    /\ arg # EMPTY
    /\ status = "Please select a cell first."

\* The cell at which a step changed the board, for a step that changed one.
changed_cells == {rc \in Coords : game_board'[rc] # game_board[rc]}

\* rc holds "" and no cell before it in row-major order does.
first_empty(rc) ==
    /\ game_board[rc] = EMPTY
    /\ \A other \in Coords :
          game_board[other] = EMPTY => RowMajor(rc) <= RowMajor(other)

\* C11: a hint reveals the selected cell when a cell is selected and holds "";
\* otherwise (nothing selected, or the selected cell is filled) it reveals the
\* first cell holding "" in row-major order over the 81 cells.
C11_HintTarget ==
    [][(op' = "show_hint" /\ status' = "Hint")
          => \E rc \in Coords :
                /\ changed_cells = {rc}
                /\ IF selected_cell # NoCell /\ game_board[selected_cell] = EMPTY
                   THEN rc = selected_cell
                   ELSE first_empty(rc)]_vars

\* A hint revealed a cell other than the one that was selected, which stays
\* filled with what the player entered.
C11_Witness ==
    /\ op = "show_hint"
    /\ status = "Hint"
    /\ clicked = NoCell
    /\ selected_cell \in is_hint
    /\ is_error # {}
    /\ hints_used = 2

\* The non-immutable cells whose value differs from the solution's (a cell
\* holding "" differs from every digit), in row-major order.
differing_cells ==
    SelectSeq(all_cells,
              LAMBDA rc : /\ rc \notin immutable_cells
                          /\ game_board[rc] # <<solution_board[rc]>>)

\* C12: check_solution collects, in row-major order, exactly the non-immutable
\* cells whose board value differs from the solution's, cells holding ""
\* included, and returns true exactly when that list is empty.
C12_CheckCollects ==
    op = "check_solution" =>
        /\ raised = ""
        /\ solution_board # NoBoard
        /\ returned # <<>>
        /\ returned[2] = differing_cells
        /\ returned[1] <=> (returned[2] = <<>>)

\* C13: within one session mistakes and hints_used never decrease: only a new
\* game or a successful load may lower them; number entry, erasure, hint,
\* check, timer toggle and tick, save and a rejected load do not.
C13_CountersMonotone ==
    [][(/\ op' # "new_game"
        /\ ~(op' = "load_game" /\ status' = "Game loaded successfully."))
          => mistakes' >= mistakes /\ hints_used' >= hints_used]_vars

\* Both counters grew, a wrong value was erased and the game was saved.
C13_Witness ==
    /\ op = "save_game"
    /\ mistakes > 0
    /\ hints_used > 0
    /\ is_error = {}
    /\ file # NoFile
    /\ file.mistakes = mistakes

\* The payload of the load that a step performs lacks the key k.
lacks(k) == \E i \in DOMAIN arg' : arg'[i] = k

\* C14: a load whose payload has game_board succeeds whatever else is missing,
\* and a missing solution_board leaves the solution absent, missing mistakes
\* and hints_used leave the counters 0, and missing cells_meta leaves every
\* cell's is_error and is_hint flag false.
C14_MissingFieldsDefault ==
    [][(op' = "load_game" /\ ~lacks("game_board"))
          => /\ status' = "Game loaded successfully."
             /\ raised' = ""
             /\ dialog' = <<>>
             /\ lacks("solution_board") => solution_board' = NoBoard
             /\ lacks("mistakes") => mistakes' = 0
             /\ lacks("hints_used") => hints_used' = 0
             /\ lacks("cells_meta") => is_error' = {} /\ is_hint' = {}]_vars

\* A file without solution, counters and flags was loaded.
C14_Witness ==
    /\ op = "load_game"
    /\ status = "Game loaded successfully."
    /\ arg = <<"solution_board", "mistakes", "hints_used", "cells_meta">>
    /\ solution_board = NoBoard
    /\ mistakes = 0 /\ hints_used = 0
    /\ is_error = {} /\ is_hint = {}
    /\ game_board[<<0, 7>>] = <<9>>

C16_OutOfRangeRejected ==
    [][(op' = "is_valid_move" /\ (arg'[1] \notin 0 .. 8 \/ arg'[2] \notin 0 .. 8))
          => /\ raised' # ""
             /\ returned' = <<>>
             /\ UNCHANGED session]_vars

\* C17: a number entry or a hint that brings the board to equal the solution
\* on all 81 cells ends the game in that step: the timer flag is false after
\* it and the player was congratulated and asked for a name for the score.
C17_CompletionEndsGame ==
    [][(/\ op' \in {"number_clicked", "show_hint"}
        /\ solution_board' # NoBoard
        /\ \E rc \in Coords : game_board[rc] # <<solution_board'[rc]>>
        /\ \A rc \in Coords : game_board'[rc] = <<solution_board'[rc]>>)
          => /\ ~is_timer_running'
             /\ \E i \in DOMAIN dialog' : dialog'[i] = "Congratulations"]_vars

\* C18: number entry, erasure, hint, check and timer tick (and cell click,
\* timer toggle and save) never change the solution, the immutable cells or
\* the recorded empty-cell target; only a new game or a load does.
C18_SolutionFixedTargetKept ==
    [][op' \notin {"new_game", "load_game"}
          => UNCHANGED <<solution_board, immutable_cells, empty_cells>>]_vars

\* The timer ticked in a game in which cells were filled: the board no longer
\* has as many empty cells as the recorded target.
C18_Witness ==
    /\ op = "update_timer"
    /\ hints_used > 0
    /\ mistakes > 0
    /\ empty_cells = SLIDER_DEFAULT
    /\ Cardinality(masked_cells) < empty_cells
    /\ immutable_cells \cup masked_cells # Coords

\* C19: a new game started from any state leaves mistakes 0, hints_used 0,
\* seconds 0, the timer stopped, no cell selected and the is_error, is_hint
\* and is_selected flag of every cell cleared.
C19_NewGameResets ==
    [][op' = "new_game"
          => /\ mistakes' = 0
             /\ hints_used' = 0
             /\ seconds' = 0
             /\ ~is_timer_running'
             /\ selected_cell' = NoCell
             /\ is_error' = {} /\ is_hint' = {} /\ is_selected' = {}]_vars

\* A state new games are started from: mistakes and hints were made, a cell is
\* selected and flagged, and the timer is running and has ticked.
C19_Witness ==
    /\ mistakes > 0
    /\ hints_used > 0
    /\ seconds > 0
    /\ is_timer_running
    /\ selected_cell # NoCell
    /\ is_error # {}
    /\ is_hint # {}
    /\ ENABLED new_game

\* C20: a timer tick adds exactly 1 to seconds and leaves the board, the
\* solution, the immutable cells, both counters, the empty-cell target, the
\* selection, the timer flag and every cell's flags as they were.
C20_TickOnlySeconds ==
    [][op' = "update_timer"
          => /\ seconds' = seconds + 1
             /\ UNCHANGED <<game_board, solution_board, immutable_cells,
                            mistakes, hints_used, empty_cells, selected_cell,
                            is_timer_running, is_error, is_hint, is_selected,
                            slider, difficulty, file, scores>>]_vars

\* The timer ticked between two entries of the player: a cell is selected and
\* holds a wrong value.
C20_Witness ==
    /\ op = "update_timer"
    /\ seconds = 1
    /\ is_timer_running
    /\ selected_cell # NoCell
    /\ selected_cell \in is_error
    /\ file = NoFile

\* C21: in every reachable state the selected cell, when there is one, is not
\* immutable: no sequence of clicks, number entries, hints, new games and
\* loads leaves the selection on an immutable cell.
C21_SelectionNotFixed ==
    selected_cell # NoCell => selected_cell \notin immutable_cells

\* A hint moved the selection to the cell it revealed.
C21_Witness ==
    /\ op = "show_hint"
    /\ status = "Hint"
    /\ selected_cell # NoCell
    /\ clicked = NoCell
    /\ is_selected = {selected_cell}
    /\ hints_used = 1
    /\ mistakes = 0

\* The player was congratulated by the handler that ended in this state.
congratulated == \E i \in DOMAIN dialog : dialog[i] = "Congratulations"

\* C22: once a number entry has reported the puzzle solved, a further number
\* entry, erasure or hint in the same session does not report completion
\* again and submits no further score row.
C22_CompletionReportedOnce ==
    [][(/\ op = "number_clicked" /\ congratulated
        /\ op' \in {"number_clicked", "show_hint"})
          => /\ ~(\E i \in DOMAIN dialog' : dialog'[i] = "Congratulations")
             /\ scores' = scores]_vars

\* C23: in every state reached from a new game by number entry, erasure and
\* hints, a cell's is_error flag is set exactly when the cell is not
\* immutable, holds a value and that value differs from the solution's; a
\* cell whose is_hint flag is set holds the solution's value; no cell has
\* both flags set.
C23_FlagsMatchBoard ==
    /\ \A rc \in Coords :
          /\ rc \in is_error <=>
                (/\ rc \notin immutable_cells
                 /\ game_board[rc] # EMPTY
                 /\ game_board[rc] # <<solution_board[rc]>>)
          /\ rc \in is_hint => game_board[rc] = <<solution_board[rc]>>
    /\ is_error \cap is_hint = {}

\* One cell holds a wrong value, one a hint, and a second hinted cell was
\* overwritten or erased by the player and lost its flag.
C23_Witness ==
    /\ is_error # {}
    /\ Cardinality(is_hint) = 1
    /\ hints_used = 2
    /\ mistakes > 0

\* C24: reaching max_mistakes switches nothing off.  In a state whose mistake
\* count is max_mistakes or more, a number entered into the selected cell is
\* stored; when it differs from the solution the count grows by one beyond
\* max_mistakes and the Game Over box is shown again; erasing empties the
\* selected cell; a hint still reveals the solution's value in an empty cell.
C24_LimitDisablesNothing ==
    [][mistakes >= max_mistakes =>
         /\ (op' = "number_clicked" /\ selected_cell # NoCell) =>
               /\ game_board'[selected_cell] = arg'
               /\ status' \in {"Correct", "Incorrect", "Cell cleared"}
               /\ (arg' # EMPTY /\ arg' # <<solution_board[selected_cell]>>) =>
                     /\ status' = "Incorrect"
                     /\ mistakes' = mistakes + 1
                     /\ mistakes' > max_mistakes
                     /\ dialog'[1] = "Game Over"
         /\ (op' = "show_hint" /\ hint_target # NoCell) =>
               /\ game_board'[hint_target] = <<solution_board[hint_target]>>
               /\ hints_used' = hints_used + 1
               /\ status' = "Hint"]_vars

\* The puzzle was completed by a number entry after the mistake count had
\* passed max_mistakes.
C24_Witness ==
    /\ mistakes > max_mistakes
    /\ op = "number_clicked"
    /\ status = "Correct"
    /\ congratulated
    /\ IsFullySolved(solution_board, game_board)

\* C25: while the session has no solution (a file without one was loaded),
\* every digit entered into the selected cell is stored, reported Incorrect
\* and counted as a mistake, and the board is never reported solved: this
\* lasts in every state until new_game or load_game puts a solution in place.
C25_NoSolutionScoresIncorrect ==
    [][/\ (/\ solution_board = NoBoard
           /\ op' = "number_clicked"
           /\ selected_cell # NoCell
           /\ arg' # EMPTY) =>
             /\ status' = "Incorrect"
             /\ mistakes' = mistakes + 1
             /\ game_board'[selected_cell] = arg'
             /\ selected_cell \in is_error'
       /\ solution_board' = NoBoard =>
             /\ ~_is_fully_solved'
             /\ ~(\E i \in DOMAIN dialog' : dialog'[i] = "Congratulations")
       /\ (solution_board = NoBoard /\ solution_board' # NoBoard) =>
             op' \in {"new_game", "load_game"}]_vars

\* With no solution in the session the player has entered the digits that
\* complete the saved board as its game's solution has them; the last one
\* was reported Incorrect and the board is not reported solved.
C25_Witness ==
    /\ solution_board = NoBoard
    /\ op = "number_clicked"
    /\ status = "Incorrect"
    /\ mistakes = 2
    /\ \A rc \in Coords : game_board[rc] = <<GameBoards[ShuffleA][rc]>>
    /\ ~_is_fully_solved
    /\ ~congratulated

====
